---- MODULE Spec2Model ----
(***************************************************************************)
(* WealthwiseAI: the transaction ingestion and reconciliation pipeline of  *)
(* src/App.tsx (React component App) and src/geminiService.ts.             *)
(*                                                                         *)
(* Conventions                                                             *)
(*  - JS strings that the code inspects character by character (account    *)
(*    names, account hints) are sequences of one-character strings.        *)
(*  - JS numbers are integers (money is scaled to small units) plus the    *)
(*    value NaN.                                                           *)
(*  - `undefined` for a string-valued field is the sequence Undefined.     *)
(*  - Date.now() is the variable now; it never decreases.                  *)
(*  - ids built as Date.now() + i + '' are kept as the integer before the  *)
(*    final string conversion (decimal printing of integers is injective   *)
(*    and ids are only ever compared for equality).                        *)
(***************************************************************************)
EXTENDS Integers, Sequences, FiniteSets, TLC

\* ------------------------------------------------------------------ bounds
MaxBal == 8
MaxLedger == 2
MaxAccounts == 2
MaxClock == 11
MaxChat == 2

\* --------------------------------------------------------------- JS values
\* The IEEE not-a-number value produced by parseFloat on non-numeric text.
NaN == 0 - 1000

IsNaN(x) == x = NaN

\* JS number addition / subtraction (NaN is absorbing).
JsAdd(a, b) == IF IsNaN(a) \/ IsNaN(b) THEN NaN ELSE a + b
JsSub(a, b) == IF IsNaN(a) \/ IsNaN(b) THEN NaN ELSE a - b

\* JS truthiness of a number: 0 and NaN are falsy.
TruthyNum(x) == ~IsNaN(x) /\ x # 0

\* `undefined` where a string is expected.
Undefined == <<"undefined">>

\* The empty JS string.
EmptyStr == <<>>

\* String.prototype.toLowerCase on one character.
LowerChar(c) ==
  CASE c = "H" -> "h"
    [] c = "S" -> "s"
    [] c = "C" -> "c"
    [] c = "W" -> "w"
    [] OTHER -> c

\* String.prototype.toLowerCase.
ToLowerCase(s) == [i \in 1..Len(s) |-> LowerChar(s[i])]

\* String.prototype.includes: t occurs in s as a contiguous substring.
Includes(s, t) ==
  \E k \in 0..(Len(s) - Len(t)) : SubSeq(s, k + 1, k + Len(t)) = t

\* String.prototype.trim (only the blank character " " is whitespace here).
RECURSIVE TrimLeft(_)
TrimLeft(s) == IF s # <<>> /\ Head(s) = " " THEN TrimLeft(Tail(s)) ELSE s
RECURSIVE TrimRight(_)
TrimRight(s) ==
  IF s # <<>> /\ s[Len(s)] = " " THEN TrimRight(SubSeq(s, 1, Len(s) - 1)) ELSE s
Trim(s) == TrimRight(TrimLeft(s))

\* parseFloat on the text of a number field or a CSV cell: the longest
\* numeric prefix, NaN when there is none.
ParseFloat(txt) ==
  CASE txt = "1" -> 1
    [] txt = "2" -> 2
    [] txt = "0" -> 0
    [] txt = "-1" -> 0 - 1
    [] txt = "2x" -> 2
    [] OTHER -> NaN

\* ------------------------------------------------------------ program data
\* Account names: "HDFC Savings" and "Cash Wallet" (INITIAL_ACCOUNTS), and a
\* name a user may give to a new account.
HDFC == <<"H", "S">>
CashWallet == <<"C", "W">>
OtherName == <<"x">>

\* Balances are scaled: 50000.00 -> 5, 2000.00 -> 2.  The ghost field
\* `opening` remembers the balance the account was created with.
INITIAL_ACCOUNTS ==
  << [id |-> 1, name |-> HDFC, balance |-> 5, opening |-> 5],
     [id |-> 2, name |-> CashWallet, balance |-> 2, opening |-> 2] >>

EXPENSE == "EXPENSE"
INCOME == "INCOME"
INVESTMENT == "INVESTMENT"
TransactionType == {EXPENSE, INCOME, INVESTMENT}

\* previewData is `ParsedTransactionData[] | null`.
Null == [isNull |-> TRUE, list |-> <<>>]
Staged(l) == [isNull |-> FALSE, list |-> l]

\* new Date().toISOString(): the date of "now".
NowISO == "today"

\* `undefined` where a plain (never inspected) string is expected.
UndefinedStr == "<undefined>"

\* JS truthiness of a plain string.
TruthyStr(s) == s # "" /\ s # UndefinedStr

VARIABLES
  accounts,       \* useState<Account[]>            (App.tsx:39)
  transactions,   \* useState<Transaction[]>        (App.tsx:40), newest first
  previewData,    \* useState<ParsedTransactionData[] | null> (App.tsx:54)
  activeTab,      \* App.tsx:48
  entryMode,      \* App.tsx:53
  inputText,      \* App.tsx:51
  isProcessing,   \* App.tsx:52
  inFlight,       \* number of parseNaturalLanguageInput calls awaiting
  lastCall,       \* history: the last parseNaturalLanguageInput call that
                  \* returned (the service's answers and the result)
  users,              \* App.tsx:38
  priceLogs,          \* App.tsx:43
  recurringPayments,  \* App.tsx:41
  categories,         \* App.tsx:42
  gamification,       \* App.tsx:44
  settings,           \* App.tsx:45
  lastDoc,        \* history: the last file given to handleRestore
  lastFile,       \* history: the lines of the last file given to
                  \* handleBulkImport
  chatHistory,    \* App.tsx:57, the roles of the messages
  chatPending,    \* runFinancialAnalysis calls awaiting their reply
  now,            \* Date.now()
  lastOp          \* history: the handler that ran last, and how it ended

vars == << accounts, transactions, previewData, activeTab, entryMode,
           inputText, isProcessing, inFlight, lastCall, users, priceLogs,
           recurringPayments, categories, gamification, settings, lastDoc,
           lastFile, chatHistory, chatPending, now, lastOp >>

ledgerVars == << accounts, transactions >>
chatVars == << chatHistory, chatPending >>
uiVars == << activeTab, entryMode, inputText >>
extractVars == << isProcessing, inFlight, lastCall >>
restVars == << users, priceLogs, recurringPayments, categories, gamification,
              settings, lastDoc >>

\* ---------------------------------------------------------------- helpers
Range(s) == {s[i] : i \in 1..Len(s)}

\* Array.prototype.findIndex, 1-based; 0 stands for the -1 of JS.  hits[i]
\* is the value of the callback on element i.
FindIndex(hits) ==
  IF \E i \in 1..Len(hits) : hits[i]
  THEN CHOOSE i \in 1..Len(hits) : hits[i] /\ \A j \in 1..(i - 1) : ~hits[j]
  ELSE 0

\* The balance delta a ledger transaction stands for (App.tsx:227-228).
Delta(tx) == IF tx.type = INCOME THEN tx.amount ELSE JsSub(0, tx.amount)

RECURSIVE SumDeltas(_, _)
\* Sum of the deltas of the transactions of `txs` recorded against account id.
SumDeltas(txs, id) ==
  IF txs = <<>> THEN 0
  ELSE JsAdd(IF Head(txs).accountId = id THEN Delta(Head(txs)) ELSE 0,
             SumDeltas(Tail(txs), id))

RECURSIVE SumBalances(_)
SumBalances(accs) ==
  IF accs = <<>> THEN 0 ELSE JsAdd(Head(accs).balance, SumBalances(Tail(accs)))

InRange(b) == IsNaN(b) \/ (b >= 0 - MaxBal /\ b <= MaxBal)
AllInRange(accs) == \A i \in 1..Len(accs) : InRange(accs[i].balance)

\* The place of a service answer that was never asked for.
NoResponse == [kind |-> "none", value |-> [t |-> "none", items |-> <<>>]]

\* A key of a backup document: present with a value (arrays and objects,
\* all truthy), or missing (reads as undefined).
Field(v) == [has |-> TRUE, val |-> v]
Missing == [has |-> FALSE, val |-> <<>>]

\* No file has been given to handleRestore yet.
NoDoc ==
  [ parses |-> FALSE, users |-> Missing, accounts |-> Missing,
    transactions |-> Missing, priceLogs |-> Missing,
    recurringPayments |-> Missing, categories |-> Missing,
    gamification |-> Missing, settings |-> Missing ]

\* No parseNaturalLanguageInput call has returned yet.
NoCall ==
  [ primary |-> NoResponse, fallback |-> NoResponse,
    result |-> [ret |-> "none", list |-> <<>>, requests |-> 0] ]

\* -------------------------------------------------------------------- Init
Init ==
  /\ accounts = INITIAL_ACCOUNTS
  /\ transactions = <<>>
  /\ previewData = Null
  /\ activeTab = "dashboard"
  /\ entryMode = "ai"
  /\ inputText = EmptyStr
  /\ isProcessing = FALSE
  /\ inFlight = 0
  /\ lastCall = NoCall
  /\ users = "INITIAL_USERS"
  /\ priceLogs = "[]"
  /\ recurringPayments = "[]"
  /\ categories = "INITIAL_CATEGORIES"
  /\ gamification = "level 1"
  /\ settings = "dark"
  /\ lastDoc = NoDoc
  /\ lastFile = <<>>
  /\ chatHistory = <<>>
  /\ chatPending = 0
  /\ now = 10
  /\ lastOp = "init"

\* ------------------------------------------------------- user interface
\* Time passes.
Tick ==
  /\ now < MaxClock
  /\ now' = now + 1
  /\ lastOp' = "ui"
  /\ UNCHANGED << ledgerVars, previewData, uiVars, extractVars, restVars, lastFile, chatVars >>

\* Sidebar / bottom navigation: setActiveTab(item.id).
Navigate(tab) ==
  /\ activeTab # tab
  /\ tab # "analysis"
  /\ activeTab' = tab
  /\ lastOp' = "ui"
  /\ UNCHANGED << ledgerVars, previewData, entryMode, inputText, extractVars, restVars, lastFile, chatVars, now >>

\* The two entry-mode buttons of the Transaction Entry tab.
SetEntryMode(m) ==
  /\ activeTab = "input"
  /\ entryMode # m
  /\ entryMode' = m
  /\ lastOp' = "ui"
  /\ UNCHANGED << ledgerVars, previewData, activeTab, inputText, extractVars, restVars, lastFile, chatVars, now >>

\* Typing into the free-text box (shown while nothing is staged).
SetInputText(txt) ==
  /\ activeTab = "input" /\ entryMode = "ai" /\ previewData.isNull
  /\ inputText # txt
  /\ inputText' = txt
  /\ lastOp' = "ui"
  /\ UNCHANGED << ledgerVars, previewData, activeTab, entryMode, extractVars, restVars, lastFile, chatVars, now >>

\* --------------------------------------------------- confirmTransactions
\* Mutant: a candidate that matches no account goes to the last account.
ResolveIdx_FallbackLast(accs, p) ==
  LET accIdx == FindIndex([i \in 1..Len(accs) |->
                  Includes(ToLowerCase(accs[i].name), ToLowerCase(p.accountNameMatch))])
  IN  IF accIdx # 0 THEN accIdx ELSE Len(accs)

\* The account a candidate is recorded against: the first account whose
\* lower-cased name includes the lower-cased hint, else the first account.
ResolveIdx(accs, p) ==
  LET accIdx == FindIndex([i \in 1..Len(accs) |->
                  Includes(ToLowerCase(accs[i].name), ToLowerCase(p.accountNameMatch))])
  IN  IF accIdx # 0 THEN accIdx ELSE 1

\* The TypeErrors the loop body can raise: toLowerCase of an undefined hint
\* (inside the findIndex callback, so only when there is an account to
\* test), and acc.id when updatedAccounts[0] is undefined.
CandidateThrows(accs, p) ==
  \/ accs = <<>>
  \/ p.accountNameMatch = Undefined

\* The ledger transaction built from candidate p (0-based index i) at
\* clock reading t for the account acc.
MakeTx(p, i, t, acc) ==
  [ id |-> t + i,
    date |-> IF TruthyStr(p.date) THEN p.date ELSE NowISO,
    description |-> p.description,
    amount |-> p.amount,
    type |-> p.type,
    category |-> p.category,
    subCategory |-> p.subCategory,
    accountId |-> acc.id ]

\* Mutant: an INVESTMENT is credited like an INCOME.
ApplyToBalance_InvestmentAdds(bal, tx) ==
  IF tx.type = INCOME \/ tx.type = INVESTMENT
  THEN JsAdd(bal, tx.amount) ELSE JsSub(bal, tx.amount)

\* acc.balance += / -= tx.amount, in place on the shared account object.
ApplyToBalance(bal, tx) ==
  IF tx.type = INCOME THEN JsAdd(bal, tx.amount) ELSE JsSub(bal, tx.amount)

RECURSIVE ForEachCandidate(_, _, _, _, _)
\* previewData.forEach((p, i) => ...), from the candidate at position k
\* (1-based) on; times[k] is what Date.now() returns in iteration k.
ForEachCandidate(pd, k, accs, newTxs, times) ==
  IF k > Len(pd) THEN [thrown |-> FALSE, accs |-> accs, newTxs |-> newTxs]
  ELSE IF CandidateThrows(accs, pd[k])
       THEN [thrown |-> TRUE, accs |-> accs, newTxs |-> newTxs]
  ELSE LET j == ResolveIdx(accs, pd[k])
           tx == MakeTx(pd[k], k - 1, times[k], accs[j])
           accs2 == [accs EXCEPT ![j].balance = ApplyToBalance(@, tx)]
       IN  ForEachCandidate(pd, k + 1, accs2, Append(newTxs, tx), times)

\* Clock readings of n consecutive Date.now() calls.
ClockReadings(n) ==
  { ts \in [1..n -> now..MaxClock] :
      \A a \in 1..n : \A b \in 1..n : a <= b => ts[a] <= ts[b] }

\* Mutant: the batch is cleared although the handler ended by an exception.
CommitThrown_ClearsBatch ==
  /\ lastOp' = "confirmThrow"
  /\ previewData' = Null
  /\ UNCHANGED << transactions, uiVars >>

\* An exception leaves the event handler before any setState call: only the
\* in-place balance updates made so far remain.
CommitThrown ==
  /\ lastOp' = "confirmThrow"
  /\ UNCHANGED << transactions, previewData, uiVars >>

\* Mutant: the earlier ledger is dropped.
CommitLedger_DropsHistory(newTxs) == newTxs

\* setTransactions([...newTxs, ...transactions]).
CommitLedger(newTxs) == newTxs \o transactions

\* Mutant: the free text is kept.
CommitResetsUi_KeepsText ==
  /\ previewData' = Null
  /\ inputText' = inputText
  /\ entryMode' = "ai"
  /\ activeTab' = "history"

\* setPreviewData(null); setInputText(''); setEntryMode('ai');
\* setActiveTab('history').
CommitResetsUi ==
  /\ previewData' = Null
  /\ inputText' = EmptyStr
  /\ entryMode' = "ai"
  /\ activeTab' = "history"

\* The "Authorize All Transactions" button (shown with the staged rows).
\* times[k] is the reading of Date.now() in iteration k of the loop.
confirmTransactions(times) ==
  /\ activeTab = "input" /\ entryMode = "ai"
  /\ ~previewData.isNull
  /\ Len(transactions) + Len(previewData.list) <= MaxLedger
  /\ times \in ClockReadings(Len(previewData.list))
  /\ LET r == ForEachCandidate(previewData.list, 1, accounts, <<>>, times)
     IN  /\ AllInRange(r.accs)
         /\ accounts' = r.accs
         /\ now' = IF r.newTxs = <<>> THEN now ELSE times[Len(r.newTxs)]
         /\ IF r.thrown
            THEN CommitThrown
            ELSE /\ transactions' = CommitLedger(r.newTxs)
                 /\ CommitResetsUi
                 /\ lastOp' = "confirm"
  /\ UNCHANGED << extractVars, restVars, lastFile, chatVars >>

\* ------------------------------------------------------- account directory
\* The Save button of the account modal.  ea is the form content
\* (editingAccount); ea.id = 0 is the absent id of a new account.  The
\* modal covers the screen, so for an existing account ea is a copy of the
\* current account object with edited fields.
updateAccount(ea) ==
  /\ activeTab = "accounts"
  /\ IF ea.name = EmptyStr
     THEN /\ lastOp' = "ui"
          /\ UNCHANGED accounts
     ELSE IF ea.id # 0
     THEN /\ accounts' = [i \in 1..Len(accounts) |->
                            IF accounts[i].id = ea.id THEN ea ELSE accounts[i]]
          /\ lastOp' = "updateAccount"
     ELSE /\ Len(accounts) < MaxAccounts
          /\ LET bal == IF TruthyNum(ea.balance) THEN ea.balance ELSE 0
             IN  accounts' = Append(accounts,
                   [id |-> now, name |-> ea.name, balance |-> bal, opening |-> bal])
          /\ lastOp' = "createAccount"
  /\ UNCHANGED << transactions, previewData, uiVars, extractVars, restVars, lastFile, chatVars, now >>

\* The forms the account modal can hold: a new account, or an existing
\* account with its name or its "Opening Balance" field retyped (retyping
\* that field declares a new opening balance).
AccountForms(names, balanceTexts) ==
  { [id |-> 0, name |-> n, balance |-> ParseFloat(b), opening |-> 0] :
      n \in names \cup {EmptyStr}, b \in balanceTexts }
  \cup
  { [accounts[i] EXCEPT !.name = n] : i \in 1..Len(accounts), n \in names }
  \cup
  { [accounts[i] EXCEPT !.balance = ParseFloat(b), !.opening = ParseFloat(b)] :
      i \in 1..Len(accounts), b \in balanceTexts }

\* The trash button of an account card; ok is the answer to confirm().
deleteAccount(id, ok) ==
  /\ activeTab = "accounts"
  /\ IF ok
     THEN /\ accounts' = SelectSeq(accounts, LAMBDA a : a.id # id)
          /\ transactions' = SelectSeq(transactions, LAMBDA t : t.accountId # id)
          /\ lastOp' = "deleteAccount"
     ELSE /\ lastOp' = "ui"
          /\ UNCHANGED ledgerVars
  /\ UNCHANGED << previewData, uiVars, extractVars, restVars, lastFile, chatVars, now >>

\* ------------------------------------------------------------- transfers
\* Array.prototype.find by id: the index of the first account with that id,
\* 0 when there is none.
FindAccount(accs, id) == FindIndex([i \in 1..Len(accs) |-> accs[i].id = id])

\* The "Move Funds" button.  from / to are the values of the two selects
\* (0 is the empty "Select Account" option; an id may have gone stale) and
\* amount is parseFloat of the amount field.
handleTransfer(from, to, amount) ==
  /\ activeTab = "dashboard"
  /\ IF from = 0 \/ to = 0 \/ ~TruthyNum(amount)
        \/ FindAccount(accounts, from) = 0 \/ FindAccount(accounts, to) = 0
     THEN /\ lastOp' = "transferRejected"
          /\ UNCHANGED << ledgerVars, activeTab >>
     ELSE LET fromAcc == accounts[FindAccount(accounts, from)]
              toAcc == accounts[FindAccount(accounts, to)]
              accs2 == [i \in 1..Len(accounts) |->
                         IF accounts[i].id = fromAcc.id
                         THEN [accounts[i] EXCEPT !.balance = JsSub(@, amount)]
                         ELSE IF accounts[i].id = toAcc.id
                         THEN [accounts[i] EXCEPT !.balance = JsAdd(@, amount)]
                         ELSE accounts[i]]
          IN  /\ Len(transactions) < MaxLedger
              /\ AllInRange(accs2)
              /\ accounts' = accs2
              /\ transactions' =
                   << [ id |-> now,
                        date |-> NowISO,
                        description |-> "Transfer",
                        amount |-> amount,
                        type |-> EXPENSE,
                        category |-> "Transfer",
                        subCategory |-> "Internal",
                        accountId |-> fromAcc.id ] >> \o transactions
              /\ activeTab' = "dashboard"
              /\ lastOp' = "transfer"
  /\ UNCHANGED << previewData, entryMode, inputText, extractVars, restVars, lastFile, chatVars, now >>

\* ------------------------------------------------------- ledger history
\* The trash button of a ledger row showing transaction t.
deleteTransaction(t) ==
  /\ activeTab = "history"
  /\ transactions' = SelectSeq(transactions, LAMBDA x : x.id # t.id)
  /\ lastOp' = "deleteTransaction"
  /\ UNCHANGED << accounts, previewData, uiVars, extractVars, restVars, lastFile, chatVars, now >>

\* The edit modal of a ledger row: the pencil button copies t into
\* editingTransaction, the fields are retyped into et, and "Commit Change"
\* puts et in the place of every transaction with its id.
editTransaction(et) ==
  /\ activeTab = "history"
  /\ transactions' = [i \in 1..Len(transactions) |->
                        IF transactions[i].id = et.id THEN et ELSE transactions[i]]
  /\ lastOp' = "editTransaction"
  /\ UNCHANGED << accounts, previewData, uiVars, extractVars, restVars, lastFile, chatVars, now >>

\* What the edit modal can hold for ledger row t: amount retyped and the
\* account select set to one of the current accounts.
TransactionForms(t, amountTexts) ==
  { [t EXCEPT !.amount = ParseFloat(a)] : a \in amountTexts }
  \cup { [t EXCEPT !.accountId = accounts[i].id] : i \in 1..Len(accounts) }
  \cup { [t EXCEPT !.amount = ParseFloat(a), !.accountId = accounts[i].id] :
           a \in amountTexts, i \in 1..Len(accounts) }

\* --------------------------------------------------------------- restore
\* Mutant: an unreadable backup file empties the ledger.
RestoreRejected_ClearsLedger ==
  /\ lastOp' = "restoreFailed"
  /\ transactions' = <<>>
  /\ UNCHANGED << accounts, users, priceLogs, recurringPayments, categories,
                  gamification, settings >>

\* JSON.parse throws: the catch block only shows "Invalid backup file.".
RestoreRejected ==
  /\ lastOp' = "restoreFailed"
  /\ UNCHANGED << ledgerVars, users, priceLogs, recurringPayments, categories,
                  gamification, settings >>

\* if (json.key) setKey(json.key): the state after the test and the call.
Adopt(field, current) == IF field.has THEN field.val ELSE current

\* reader.onload of handleRestore (the file input of the settings tab) for
\* the file doc.
handleRestore(doc) ==
  /\ activeTab = "settings"
  /\ lastDoc' = doc
  /\ IF ~doc.parses
     THEN RestoreRejected
     ELSE /\ users' = Adopt(doc.users, users)
          /\ accounts' = Adopt(doc.accounts, accounts)
          /\ transactions' = Adopt(doc.transactions, transactions)
          /\ priceLogs' = Adopt(doc.priceLogs, priceLogs)
          /\ recurringPayments' = Adopt(doc.recurringPayments, recurringPayments)
          /\ categories' = Adopt(doc.categories, categories)
          /\ gamification' = Adopt(doc.gamification, gamification)
          /\ settings' = Adopt(doc.settings, settings)
          /\ lastOp' = "restore"
  /\ UNCHANGED << previewData, uiVars, extractVars, lastFile, chatVars, now >>

\* ------------------------------------------------------------ extraction
\* History field of a staged candidate: the id of the account its hint
\* names (by the test the commit uses) at the moment it is staged or its
\* account select is changed; 0 when it names none.
StagedFor(hint) ==
  IF hint = Undefined THEN 0
  ELSE LET k == FindIndex([i \in 1..Len(accounts) |->
                  Includes(ToLowerCase(accounts[i].name), ToLowerCase(hint))])
       IN  IF k = 0 THEN 0 ELSE accounts[k].id

\* A JSON value that is not an object (number, string, boolean, null).
ScalarItem == [kind |-> "scalar"]

\* Array.isArray(parsed) ? parsed : [parsed], for a parsed JSON value v:
\* [t |-> "array" | "object", items |-> objects] or [t |-> "scalar"].
WrapParsed(v) == IF v.t = "scalar" THEN << ScalarItem >> ELSE v.items

\* One attempt: `await generateContent(...)`, then `if (response.text)`
\* and JSON.parse.  resp.kind is "throw" (the call rejects), "noText"
\* (response.text is undefined or empty), "badJson" (JSON.parse throws) or
\* "json" (resp.value is the parsed value).
Attempt(resp) ==
  CASE resp.kind = "json" -> [out |-> "ok", list |-> WrapParsed(resp.value)]
    [] resp.kind = "noText" -> [out |-> "noText", list |-> <<>>]
    [] OTHER -> [out |-> "throw", list |-> <<>>]

\* parseNaturalLanguageInput, given what the service answers to the primary
\* and to the fallback request.  ret is "list" (an array is returned),
\* "null", or "throw" (getAI() throws before the try block, primary.kind =
\* "noClient"); requests counts the generateContent calls made.
parseNaturalLanguageInput(primary, fallback) ==
  LET a1 == Attempt(primary)
      a2 == Attempt(fallback)
  IN  CASE primary.kind = "noClient" -> [ret |-> "throw", list |-> <<>>, requests |-> 0]
        [] a1.out = "ok" -> [ret |-> "list", list |-> a1.list, requests |-> 1]
        [] a1.out = "noText" -> [ret |-> "list", list |-> <<>>, requests |-> 1]
        [] OTHER ->
             IF a2.out = "ok"
             THEN [ret |-> "list", list |-> a2.list, requests |-> 2]
             ELSE [ret |-> "null", list |-> <<>>, requests |-> 2]

\* ({ ...r, id }) for one element r of the returned array; a scalar spreads
\* to no fields at all.  Staging ids (Math.random) are modelled as the
\* position at staging time, so they are distinct within a batch.  An
\* absent amount is NaN in every arithmetic use.
WithStagingId(r, k) ==
  IF r.kind = "scalar"
  THEN [ id |-> k, date |-> UndefinedStr, description |-> UndefinedStr,
         amount |-> NaN, type |-> UndefinedStr, category |-> UndefinedStr,
         subCategory |-> UndefinedStr, accountNameMatch |-> Undefined,
         stagedFor |-> 0 ]
  ELSE [ id |-> k, date |-> r.date, description |-> r.description,
         amount |-> r.amount, type |-> r.type, category |-> r.category,
         subCategory |-> r.subCategory, accountNameMatch |-> r.accountNameMatch,
         stagedFor |-> StagedFor(r.accountNameMatch) ]

\* Mutant: the button is not disabled while a call is outstanding.
processSmartEntry_NeverDisabled ==
  /\ activeTab = "input" /\ entryMode = "ai" /\ previewData.isNull
  /\ inFlight < 3
  /\ IF Trim(inputText) = EmptyStr
     THEN /\ lastOp' = "ui"
          /\ UNCHANGED extractVars
     ELSE /\ isProcessing' = TRUE
          /\ inFlight' = inFlight + 1
          /\ lastOp' = "ui"
          /\ UNCHANGED lastCall
  /\ UNCHANGED << ledgerVars, previewData, uiVars, restVars, lastFile, chatVars, now >>

\* The "Decipher Transaction" button (disabled while isProcessing), up to
\* the await.
processSmartEntry ==
  /\ activeTab = "input" /\ entryMode = "ai" /\ previewData.isNull
  /\ ~isProcessing
  /\ IF Trim(inputText) = EmptyStr
     THEN /\ lastOp' = "ui"
          /\ UNCHANGED extractVars
     ELSE /\ isProcessing' = TRUE
          /\ inFlight' = inFlight + 1
          /\ lastOp' = "ui"
          /\ UNCHANGED lastCall
  /\ UNCHANGED << ledgerVars, previewData, uiVars, restVars, lastFile, chatVars, now >>

\* Mutant: isProcessing is reset only when candidates were returned.
processSmartEntryResume_BusyAfterFailure(primary, fallback) ==
  /\ inFlight > 0
  /\ LET results == parseNaturalLanguageInput(primary, fallback)
     IN  IF results.ret = "list"
         THEN /\ previewData' = Staged([k \in 1..Len(results.list) |->
                                          WithStagingId(results.list[k], k)])
              /\ isProcessing' = FALSE
              /\ lastOp' = "extracted"
         ELSE /\ lastOp' = "extractFailed"
              /\ UNCHANGED << previewData, isProcessing >>
  /\ lastCall' = [ primary |-> primary,
                   fallback |-> IF parseNaturalLanguageInput(primary, fallback).requests = 2
                                THEN fallback ELSE NoResponse,
                   result |-> parseNaturalLanguageInput(primary, fallback) ]
  /\ inFlight' = inFlight - 1
  /\ UNCHANGED << ledgerVars, uiVars, restVars, lastFile, chatVars, now >>

\* processSmartEntry after the await: the call has returned or thrown.
processSmartEntryResume(primary, fallback) ==
  /\ inFlight > 0
  /\ LET results == parseNaturalLanguageInput(primary, fallback)
     IN  IF results.ret = "list"
         THEN /\ previewData' = Staged([k \in 1..Len(results.list) |->
                                          WithStagingId(results.list[k], k)])
              /\ lastOp' = "extracted"
         ELSE /\ lastOp' = "extractFailed"
              /\ UNCHANGED previewData
  /\ lastCall' = [ primary |-> primary,
                   fallback |-> IF parseNaturalLanguageInput(primary, fallback).requests = 2
                                THEN fallback ELSE NoResponse,
                   result |-> parseNaturalLanguageInput(primary, fallback) ]
  /\ isProcessing' = FALSE
  /\ inFlight' = inFlight - 1
  /\ UNCHANGED << ledgerVars, uiVars, restVars, lastFile, chatVars, now >>

\* ------------------------------------------------------------ CSV import
\* reader.onload of handleBulkImport.  lines is text.split('\n') with every
\* line already split at ','; a cell is text, the sixth cell a character
\* sequence because it is trimmed.
RECURSIVE ParseCsvRows(_, _, _)
ParseCsvRows(lines, i, results) ==
  IF i > Len(lines) THEN results
  ELSE LET parts == lines[i]
       IN  IF Len(parts) >= 6
           THEN ParseCsvRows(lines, i + 1, Append(results,
                  [ id |-> Len(results) + 1,
                    date |-> parts[1],
                    description |-> parts[2],
                    amount |-> ParseFloat(parts[3]),
                    type |-> parts[4],
                    category |-> parts[5],
                    subCategory |-> "Imported",
                    accountNameMatch |-> Trim(parts[6]),
                    stagedFor |-> StagedFor(Trim(parts[6])) ]))
           ELSE ParseCsvRows(lines, i + 1, results)

handleBulkImport(lines) ==
  /\ previewData' = Staged(ParseCsvRows(lines, 2, <<>>))
  /\ lastFile' = lines
  /\ UNCHANGED chatVars
  /\ entryMode' = "import"
  /\ activeTab' = "input"
  /\ lastOp' = "import"
  /\ UNCHANGED << ledgerVars, inputText, extractVars, restVars, now >>

\* --------------------------------------------------------- staged batch
StagedRowsShown == activeTab = "input" /\ entryMode = "ai" /\ ~previewData.isNull

\* onChange of the amount field of staged row i.
editStagedAmount(i, txt) ==
  /\ StagedRowsShown
  /\ i \in 1..Len(previewData.list)
  /\ previewData' = [previewData EXCEPT !.list[i].amount = ParseFloat(txt)]
  /\ lastOp' = "editStaged"
  /\ UNCHANGED << ledgerVars, uiVars, extractVars, restVars, lastFile, chatVars, now >>

\* onChange of the account select of staged row i: the options are the
\* names of the current accounts.
editStagedAccount(i, a) ==
  /\ StagedRowsShown
  /\ i \in 1..Len(previewData.list)
  /\ a \in 1..Len(accounts)
  /\ previewData' = [previewData EXCEPT !.list[i].accountNameMatch = accounts[a].name,
                                        !.list[i].stagedFor = StagedFor(accounts[a].name)]
  /\ lastOp' = "editStaged"
  /\ UNCHANGED << ledgerVars, uiVars, extractVars, restVars, lastFile, chatVars, now >>

\* onChange of the description and date fields of staged row i.
editStagedText(i, field, txt) ==
  /\ StagedRowsShown
  /\ i \in 1..Len(previewData.list)
  /\ previewData' = IF field = "description"
                    THEN [previewData EXCEPT !.list[i].description = txt]
                    ELSE [previewData EXCEPT !.list[i].date = txt]
  /\ lastOp' = "editStaged"
  /\ UNCHANGED << ledgerVars, uiVars, extractVars, restVars, lastFile, chatVars, now >>

\* Mutant: the X button also drops every row below the one it is on.
removeStaged_DropsTail(i) ==
  /\ StagedRowsShown
  /\ i \in 1..Len(previewData.list)
  /\ previewData' = Staged(SubSeq(previewData.list, 1, i - 1))
  /\ lastOp' = "removeStaged"
  /\ UNCHANGED << ledgerVars, uiVars, extractVars, restVars, lastFile, chatVars, now >>

\* The X button of staged row i.
removeStaged(i) ==
  /\ StagedRowsShown
  /\ i \in 1..Len(previewData.list)
  /\ previewData' = Staged(SelectSeq(previewData.list,
                             LAMBDA x : x.id # previewData.list[i].id))
  /\ lastOp' = "removeStaged"
  /\ UNCHANGED << ledgerVars, uiVars, extractVars, restVars, lastFile, chatVars, now >>

\* ------------------------------------------------- conversational analysis
\* new Date(date).getTime(), for the date strings of the model.
GetTime(date) ==
  CASE date = "2023-10-25" -> 1
    [] date = "2023-10-26" -> 2
    [] date = "2024-01-05" -> 3
    [] date = NowISO -> 4
    [] OTHER -> NaN

\* The comparator (a, b) => new Date(b.date).getTime() -
\* new Date(a.date).getTime(); Array.prototype.sort reads NaN as 0.
CompareByDate(a, b) ==
  LET v == JsSub(GetTime(b.date), GetTime(a.date))
  IN  IF IsNaN(v) THEN 0 ELSE v

\* A stable insertion of x into the sorted sequence s.
RECURSIVE InsertSorted(_, _)
InsertSorted(s, x) ==
  IF s = <<>> THEN << x >>
  ELSE IF CompareByDate(s[Len(s)], x) > 0
       THEN Append(InsertSorted(SubSeq(s, 1, Len(s) - 1), x), s[Len(s)])
       ELSE Append(s, x)

RECURSIVE StableSort(_, _)
StableSort(s, k) ==
  IF k = 0 THEN <<>> ELSE InsertSorted(StableSort(s, k - 1), s[k])

\* The comparator orders the elements consistently.
ConsistentComparator(s) ==
  \A a \in 1..Len(s) : \A b \in 1..Len(s) : \A c \in 1..Len(s) :
    (CompareByDate(s[a], s[b]) = 0 /\ CompareByDate(s[b], s[c]) = 0)
      => CompareByDate(s[a], s[c]) = 0

Reorderings(s) ==
  { [i \in 1..Len(s) |-> s[f[i]]] :
      f \in { g \in [1..Len(s) -> 1..Len(s)] :
                \A a \in 1..Len(s) : \E b \in 1..Len(s) : g[b] = a } }

\* The contents the array can have after transactions.sort(...): the stable
\* order, or an implementation-defined order when the comparator is not
\* consistent.
SortOutcomes(s) ==
  IF ConsistentComparator(s) THEN { StableSort(s, Len(s)) } ELSE Reorderings(s)

\* runFinancialAnalysis up to its await: the array passed in, afterwards.
\* getAI() may throw before the sort.
runFinancialAnalysis(txs, clientOk) ==
  IF clientOk THEN SortOutcomes(txs) ELSE { txs }

\* handleSendChat with a non-blank message, up to the await.
SendChat(clientOk) ==
  /\ chatHistory' = Append(chatHistory, "user")
  /\ transactions' \in runFinancialAnalysis(transactions, clientOk)
  /\ chatPending' = IF clientOk THEN chatPending + 1 ELSE chatPending
  /\ lastOp' = "chat"

\* The chat input (Enter) and the suggestion buttons of the analysis tab.
handleSendChat(msg, clientOk) ==
  /\ activeTab = "analysis"
  /\ Len(chatHistory) < MaxChat
  /\ IF Trim(msg) = EmptyStr
     THEN /\ lastOp' = "ui"
          /\ UNCHANGED << transactions, chatVars >>
     ELSE SendChat(clientOk)
  /\ UNCHANGED << accounts, previewData, uiVars, extractVars, restVars, lastFile, now >>

\* handleSendChat after the await: the reply is appended.
handleSendChatResume ==
  /\ chatPending > 0
  /\ chatHistory' = Append(chatHistory, "ai")
  /\ chatPending' = chatPending - 1
  /\ lastOp' = "ui"
  /\ UNCHANGED << ledgerVars, previewData, uiVars, extractVars, restVars, lastFile, now >>

\* Navigation to the analysis tab; the effect sends the first message when
\* the chat is empty.
openAnalysis(clientOk) ==
  /\ activeTab # "analysis"
  /\ activeTab' = "analysis"
  /\ IF chatHistory = <<>>
     THEN SendChat(clientOk)
     ELSE /\ lastOp' = "ui"
          /\ UNCHANGED << transactions, chatVars >>
  /\ UNCHANGED << accounts, previewData, entryMode, inputText, extractVars, restVars, lastFile, now >>

\* ================================================================ inputs
\* A well-formed extracted object.
RawItem(amount, type, hint) ==
  [ kind |-> "object", date |-> "2024-01-05", description |-> "Coffee",
    amount |-> amount, type |-> type, category |-> "Produce",
    subCategory |-> "Veg", accountNameMatch |-> hint ]

JsonArray(l) == [kind |-> "json", value |-> [t |-> "array", items |-> l]]

\* Backup files: one that is not JSON; a complete backup taken from another
\* installation (one account, one transaction on it); a document that
\* holds only the accounts key.
BackupAccounts ==
  << [id |-> 3, name |-> OtherName, balance |-> 1, opening |-> 1] >>
BackupTransactions ==
  << [ id |-> 5, date |-> "2023-10-25", description |-> "Coffee",
       amount |-> 1, type |-> EXPENSE, category |-> "Beverages",
       subCategory |-> "Imported", accountId |-> 3 ] >>
UnreadableBackup == NoDoc
FullBackup ==
  [ parses |-> TRUE, users |-> Field("backup users"),
    accounts |-> Field(BackupAccounts),
    transactions |-> Field(BackupTransactions),
    priceLogs |-> Field("backup priceLogs"),
    recurringPayments |-> Field("backup recurringPayments"),
    categories |-> Field("backup categories"),
    gamification |-> Field("backup gamification"),
    settings |-> Field("backup settings") ]
AccountsOnlyBackup ==
  [ NoDoc EXCEPT !.parses = TRUE, !.accounts = Field(BackupAccounts) ]
BackupFiles == { UnreadableBackup, FullBackup, AccountsOnlyBackup }

\* An extracted object without the description field.
IncompleteItem ==
  [ RawItem(1, INCOME, <<"h">>) EXCEPT !.description = UndefinedStr ]

\* The service's answers: the call rejects; the response has no text; the
\* text is not JSON; the text is a JSON number, string, boolean or null;
\* the text is a JSON array of objects, one of them incomplete.
Throws == [kind |-> "throw", value |-> [t |-> "none", items |-> <<>>]]
NoText == [kind |-> "noText", value |-> [t |-> "none", items |-> <<>>]]
BadJson == [kind |-> "badJson", value |-> [t |-> "none", items |-> <<>>]]
JsonScalar == [kind |-> "json", value |-> [t |-> "scalar", items |-> <<>>]]
NoClient == [kind |-> "noClient", value |-> [t |-> "none", items |-> <<>>]]
Responses ==
  { NoClient, Throws, NoText, BadJson, JsonScalar,
    JsonArray(<< RawItem(2, EXPENSE, <<"C", "W">>), IncompleteItem >>) }

CsvHeader == << "Date", "Description", "Amount", "Type", "Category", "AccountName" >>
CsvRow(amountText, type, account) ==
  << "2023-10-25", "Coffee", amountText, type, "Beverages", account >>

\* ---------------------------------------------- the commit pipeline model
\* CSV staging, edits of the staged batch, account deletion and the commit
\* (all candidates of a batch committed within one clock reading).
CommitCsvFiles ==
  { << CsvHeader, CsvRow("2", INVESTMENT, <<"C", "W", " ">>), CsvRow("1", INCOME, <<"h">>) >>,
    << CsvHeader, CsvRow("abc", EXPENSE, <<"C", "W">>), << "short", "row" >> >> }

SameReading == [k \in 1..Len(previewData.list) |-> now]

NextCommit ==
  \/ \E tab \in {"input", "accounts"} : Navigate(tab)
  \/ \E m \in {"ai", "import"} : SetEntryMode(m)
  \/ SetInputText(<<"x">>)
  \/ \E lines \in CommitCsvFiles : handleBulkImport(lines)
  \/ editStagedAmount(1, "0")
  \/ editStagedAccount(1, 1)
  \/ \E i \in 1..2 : removeStaged(i)
  \/ \E i \in 1..Len(accounts) : deleteAccount(accounts[i].id, TRUE)
  \/ confirmTransactions(SameReading)

SpecCommit == Init /\ [][NextCommit]_vars

\* ---------------------------------------------- the ledger history model
\* CSV staging and commit, then deletes and edits of committed transactions
\* and retyped account balances.
HistoryCsvFiles ==
  { << CsvHeader, CsvRow("2", EXPENSE, <<"C", "W">>), CsvRow("1", INCOME, <<"h">>) >> }

NextHistory ==
  \/ \E tab \in {"input", "history", "accounts"} : Navigate(tab)
  \/ SetEntryMode("ai")
  \/ \E lines \in HistoryCsvFiles : handleBulkImport(lines)
  \/ \E i \in 1..2 : removeStaged(i)
  \/ confirmTransactions(SameReading)
  \/ \E i \in 1..Len(transactions) : deleteTransaction(transactions[i])
  \/ \E i \in 1..Len(transactions) :
       \E et \in TransactionForms(transactions[i], {"1"}) : editTransaction(et)
  \/ \E ea \in AccountForms({}, {"1"}) : updateAccount(ea)

SpecHistory == Init /\ [][NextHistory]_vars

\* ------------------------------------------------------ the transfer model
\* Transfers between the accounts of a directory that accounts can leave
\* and join.
AccountIds == {accounts[j].id : j \in 1..Len(accounts)}

NextTransfer ==
  \/ Tick
  \/ \E tab \in {"dashboard", "accounts"} : Navigate(tab)
  \/ \E i \in 1..Len(accounts) : deleteAccount(accounts[i].id, TRUE)
  \/ \E ea \in AccountForms({OtherName}, {"1"}) : updateAccount(ea)
  \/ \E from \in {0, 1, 2} \cup AccountIds, to \in {0, 1, 2} \cup AccountIds,
        txt \in {"1", "-1", ""} :
       handleTransfer(from, to, ParseFloat(txt))

SpecTransfer == Init /\ [][NextTransfer]_vars

\* ------------------------------------------------- the ledger ids model
\* Batch commits and transfers under a clock that may or may not advance
\* between and within them.
IdsCsvFiles ==
  { << CsvHeader, CsvRow("1", EXPENSE, <<"C", "W">>), CsvRow("1", INCOME, <<"h">>) >> }

NextIds ==
  \/ Tick
  \/ \E tab \in {"input", "dashboard"} : Navigate(tab)
  \/ SetEntryMode("ai")
  \/ \E lines \in IdsCsvFiles : handleBulkImport(lines)
  \/ \E i \in 1..2 : removeStaged(i)
  \/ \E times \in ClockReadings(Len(previewData.list)) : confirmTransactions(times)
  \/ \E from \in {1, 2}, to \in {1, 2} : handleTransfer(from, to, 1)

SpecIds == Init /\ [][NextIds]_vars

\* ------------------------------------------- the account resolution model
\* CSV batches whose rows carry hints that name an account, contain an
\* account name, or name none, and a type cell outside the three tags;
\* accounts may leave the directory before the commit.
ResolveCsvFiles ==
  { << CsvHeader, CsvRow("2", EXPENSE, <<"z">>), CsvRow("1", INCOME, <<"c", "w">>) >>,
    << CsvHeader, CsvRow("1", INCOME, <<"C", "W", "x">>), CsvRow("1", "REFUND", <<"H">>) >> }

NextResolve ==
  \/ \E tab \in {"input", "accounts"} : Navigate(tab)
  \/ SetEntryMode("ai")
  \/ \E lines \in ResolveCsvFiles : handleBulkImport(lines)
  \/ \E i \in 1..2 : removeStaged(i)
  \/ \E i \in 1..Len(accounts) : deleteAccount(accounts[i].id, TRUE)
  \/ confirmTransactions(SameReading)

SpecResolve == Init /\ [][NextResolve]_vars

\* --------------------------------------------------- the extraction model
\* Free-text extraction with every kind of service answer, and CSV import
\* at any moment (before, during and after an extraction).
ExtractCsvFiles ==
  { << CsvHeader, CsvRow("1", INVESTMENT, <<"h">>) >> }

NextExtract ==
  \/ \E tab \in {"input", "dashboard"} : Navigate(tab)
  \/ SetEntryMode("ai")
  \/ \E txt \in {<<"x">>, <<" ">>} : SetInputText(txt)
  \/ processSmartEntry
  \/ \E primary \in Responses, fallback \in Responses :
       processSmartEntryResume(primary, fallback)
  \/ \E lines \in ExtractCsvFiles : handleBulkImport(lines)
  \/ \E i \in 1..2 : removeStaged(i)

SpecExtract == Init /\ [][NextExtract]_vars

\* Every outstanding call returns (or throws) at some time.
SpecExtractLive ==
  /\ Init /\ [][NextExtract]_vars
  /\ WF_vars(\E primary \in Responses, fallback \in Responses :
               processSmartEntryResume(primary, fallback))

\* ------------------------------------------------- the staged batch model
\* A CSV batch whose rows are edited and removed before it is committed.
StagedCsvFiles ==
  { << CsvHeader, CsvRow("1", EXPENSE, <<"H">>), CsvRow("1", INCOME, <<"C", "W">>) >> }

NextStaged ==
  \/ Navigate("input")
  \/ SetEntryMode("ai")
  \/ \E lines \in StagedCsvFiles : handleBulkImport(lines)
  \/ editStagedAmount(2, "2x")
  \/ editStagedAccount(2, 1)
  \/ \E field \in {"description", "date"} : editStagedText(1, field, "t")
  \/ \E i \in 1..2 : removeStaged(i)
  \/ confirmTransactions(SameReading)

SpecStaged == Init /\ [][NextStaged]_vars

\* ----------------------------------------------------- the CSV file model
\* Imports of the downloadable template (six columns) and of a file in the
\* five-column layout date,description,amount,type,accountName.
CsvTemplate ==
  << CsvHeader,
     << "2023-10-25", "Coffee", "2", EXPENSE, "Beverages", <<"C", "W">> >>,
     << "2023-10-26", "Dividend", "1", INCOME, "Investments", <<"H", "S">> >> >>

FiveColumnFile ==
  << << "Date", "Description", "Amount", "Type", "AccountName" >>,
     << "2023-10-25", "Coffee", "2", EXPENSE, <<"C", "W">> >> >>

NextCsv ==
  \/ \E tab \in {"input", "dashboard"} : Navigate(tab)
  \/ SetEntryMode("ai")
  \/ \E lines \in {CsvTemplate, FiveColumnFile} : handleBulkImport(lines)
  \/ \E i \in 1..2 : removeStaged(i)
  \/ confirmTransactions(SameReading)

SpecCsv == Init /\ [][NextCsv]_vars

\* ---------------------------------------------------- the restore model
\* Commits, transfers, ledger edits and account deletions interleaved with
\* restores of backup files.
RestoreCsvFiles ==
  { << CsvHeader, CsvRow("1", EXPENSE, <<"C", "W">>) >> }

NextRestore ==
  \/ \E tab \in {"input", "dashboard", "history", "accounts", "settings"} : Navigate(tab)
  \/ SetEntryMode("ai")
  \/ \E lines \in RestoreCsvFiles : handleBulkImport(lines)
  \/ confirmTransactions(SameReading)
  \/ \E from \in AccountIds, to \in AccountIds : handleTransfer(from, to, 1)
  \/ \E i \in 1..Len(transactions) :
       \E et \in TransactionForms(transactions[i], {"2"}) : editTransaction(et)
  \/ \E i \in 1..Len(accounts) : deleteAccount(accounts[i].id, TRUE)
  \/ \E doc \in BackupFiles : handleRestore(doc)

SpecRestore == Init /\ [][NextRestore]_vars

\* ------------------------------------------- the mid-batch failure model
NoHintBatch ==
  JsonArray(<< RawItem(2, INCOME, <<"C", "W">>), RawItem(1, EXPENSE, Undefined) >>)

HintedBatch == JsonArray(<< RawItem(1, EXPENSE, <<"H">>) >>)

NextAtomic ==
  \/ \E tab \in {"input", "accounts"} : Navigate(tab)
  \/ SetInputText(<<"x">>)
  \/ processSmartEntry
  \/ \E primary \in {NoHintBatch, HintedBatch, Throws} :
       processSmartEntryResume(primary, Throws)
  \/ \E i \in 1..2 : removeStaged(i)
  \/ \E i \in 1..Len(accounts) : deleteAccount(accounts[i].id, TRUE)
  \/ confirmTransactions(SameReading)

SpecAtomic == Init /\ [][NextAtomic]_vars

\* ------------------------------------------------------- the analysis model
NextChat ==
  \/ \E tab \in {"input", "history"} : Navigate(tab)
  \/ SetEntryMode("ai")
  \/ handleBulkImport(CsvTemplate)
  \/ removeStaged(1)
  \/ confirmTransactions(SameReading)
  \/ \E clientOk \in BOOLEAN : openAnalysis(clientOk)
  \/ \E msg \in { <<"x">>, <<" ">> }, clientOk \in BOOLEAN : handleSendChat(msg, clientOk)
  \/ handleSendChatResume

SpecChat == Init /\ [][NextChat]_vars

\* ================================================================ claims
\* A step of confirmTransactions (normal or exceptional end).
CommitStep == lastOp' = "confirm" \/ lastOp' = "confirmThrow"

\* The account candidate p was staged for has been deleted since.
AccountDeletedSinceStaging(p) ==
  /\ p.stagedFor # 0
  /\ \A j \in 1..Len(accounts) : accounts[j].id # p.stagedFor

Balances(accs) == [j \in 1..Len(accs) |-> accs[j].balance]

\* C2: a commit of a batch holding a candidate whose account was deleted
\* after staging adds no ledger transaction and changes no balance.
C2_DeletedAccountRejectsBatch ==
  [][ ( /\ CommitStep
        /\ \E k \in 1..Len(previewData.list) :
             AccountDeletedSinceStaging(previewData.list[k]) )
      => /\ transactions' = transactions
         /\ Balances(accounts') = Balances(accounts) ]_vars

\* C3: when a commit fails (the handler ends by an exception), the staged
\* batch afterwards is exactly the batch before.
C3_FailedCommitKeepsBatch ==
  [][ lastOp' = "confirmThrow" => previewData' = previewData ]_vars

\* C3 witness: a commit has failed on a batch that holds candidates.
C3_Witness ==
  /\ lastOp = "confirmThrow"
  /\ ~previewData.isNull /\ Len(previewData.list) = 2

\* The signed delta the specification gives to a transaction type.
SignedDelta(type, amount) ==
  CASE type = INCOME -> amount
    [] type = EXPENSE -> JsSub(0, amount)
    [] type = INVESTMENT -> JsSub(0, amount)

RECURSIVE SignedSumFor(_, _)
\* Sum of the signed deltas of the transactions of txs recorded against id.
SignedSumFor(txs, id) ==
  IF txs = <<>> THEN 0
  ELSE JsAdd(IF Head(txs).accountId = id
             THEN SignedDelta(Head(txs).type, Head(txs).amount) ELSE 0,
             SignedSumFor(Tail(txs), id))

RECURSIVE SignedSum(_)
\* Sum of the signed deltas of a sequence of candidates or transactions.
SignedSum(ps) ==
  IF ps = <<>> THEN 0
  ELSE JsAdd(SignedDelta(Head(ps).type, Head(ps).amount), SignedSum(Tail(ps)))

\* The transactions a step has put in front of the ledger.
Added == SubSeq(transactions', 1, Len(transactions') - Len(transactions))

KnownTypes(ps) == \A k \in 1..Len(ps) : ps[k].type \in TransactionType

\* C4: every committed candidate moves the balance of the account it is
\* recorded against by +amount (INCOME) or -amount (EXPENSE, INVESTMENT)
\* and moves no other balance.
C4_CommitAppliesSignedDelta ==
  [][ (lastOp' = "confirm" /\ KnownTypes(Added))
      => /\ Len(accounts') = Len(accounts)
         /\ \A j \in 1..Len(accounts) :
              /\ accounts'[j].id = accounts[j].id
              /\ accounts'[j].balance =
                   JsAdd(accounts[j].balance, SignedSumFor(Added, accounts[j].id)) ]_vars

\* C4 witness: a batch with an INVESTMENT on Cash Wallet (2 units) and an
\* INCOME on HDFC Savings (1 unit) has just been committed.
C4_Witness ==
  /\ lastOp = "confirm"
  /\ Len(transactions) = 2
  /\ transactions[1].type = INVESTMENT /\ transactions[1].accountId = 2
  /\ transactions[2].type = INCOME /\ transactions[2].accountId = 1
  /\ Balances(accounts) = << 6, 0 >>

\* A candidate the specification calls valid.
ValidCandidate(p) ==
  /\ p.type \in TransactionType
  /\ ~IsNaN(p.amount) /\ p.amount > 0

\* C5: committing N valid candidates makes the ledger N longer, keeps the
\* earlier transactions, and moves the total of the balances by the sum of
\* the candidates' signed deltas.
C5_CommitAddsNTransactions ==
  [][ ( /\ lastOp' = "confirm"
        /\ \A k \in 1..Len(previewData.list) : ValidCandidate(previewData.list[k]) )
      => /\ Len(transactions') = Len(transactions) + Len(previewData.list)
         /\ SubSeq(transactions', Len(previewData.list) + 1, Len(transactions'))
              = transactions
         /\ SumBalances(accounts') =
              JsAdd(SumBalances(accounts), SignedSum(previewData.list)) ]_vars

\* C5 witness: an INCOME has just been committed on top of a ledger that
\* already held an INVESTMENT.
C5_Witness ==
  /\ lastOp = "confirm"
  /\ Len(transactions) = 2
  /\ transactions[1].type = INCOME /\ transactions[1].amount = 1
  /\ transactions[2].type = INVESTMENT /\ transactions[2].amount = 2

\* A commit of the empty batch [].
EmptyCommitStep ==
  /\ CommitStep
  /\ ~previewData.isNull /\ previewData.list = <<>>

\* C6 as stated: committing an empty batch changes nothing at all.
C6_EmptyCommitChangesNothing ==
  [][ EmptyCommitStep
      => UNCHANGED << accounts, transactions, previewData, activeTab,
                      entryMode, inputText, isProcessing, inFlight >> ]_vars

\* C6 amended: committing an empty batch leaves the ledger and every
\* account balance unchanged; it ends the staging session (previewData
\* null, inputText empty, entry mode ai) and shows the history tab.
C6_EmptyCommitKeepsLedger ==
  [][ EmptyCommitStep
      => /\ transactions' = transactions
         /\ accounts' = accounts
         /\ previewData' = Null
         /\ inputText' = EmptyStr
         /\ entryMode' = "ai"
         /\ activeTab' = "history"
         /\ UNCHANGED extractVars ]_vars

\* C6 witness: a commit has just ended and the ledger is still empty, so
\* the batch it took was empty.
C6_Witness ==
  /\ lastOp = "confirm"
  /\ transactions = <<>>
  /\ previewData.isNull /\ activeTab = "history"

\* C10: every ledger transaction has a strictly positive, finite amount.
C10_LedgerAmountsPositive ==
  \A k \in 1..Len(transactions) :
    ~IsNaN(transactions[k].amount) /\ transactions[k].amount > 0

\* The change a step makes to the sum of the deltas recorded against id.
LedgerChangeFor(id) ==
  JsSub(SumDeltas(transactions', id), SumDeltas(transactions, id))

\* C1: every account's balance is its opening balance plus the signed
\* deltas of the ledger transactions currently recorded against it.
C1_BalanceIsOpeningPlusDeltas ==
  \A j \in 1..Len(accounts) :
    accounts[j].balance =
      JsAdd(accounts[j].opening, SignedSumFor(transactions, accounts[j].id))

\* One of the accounts of accs has the id.
HasAccount(accs, id) == \E j \in 1..Len(accs) : accs[j].id = id

\* C7: an accepted transfer of A from X to Y takes A from X, gives A to Y,
\* leaves the total of the balances as it was and adds exactly one ledger
\* transaction, recorded against X as Transfer / Internal.
C7_TransferMovesAmount ==
  [][ lastOp' = "transfer"
      => /\ Len(transactions') = Len(transactions) + 1
         /\ Tail(transactions') = transactions
         /\ transactions'[1].category = "Transfer"
         /\ transactions'[1].subCategory = "Internal"
         /\ HasAccount(accounts, transactions'[1].accountId)
         /\ SumBalances(accounts') = SumBalances(accounts)
         /\ \E y \in 1..Len(accounts) :
              \A j \in 1..Len(accounts) :
                accounts'[j].balance =
                  JsAdd(JsSub(accounts[j].balance,
                              IF accounts[j].id = transactions'[1].accountId
                              THEN transactions'[1].amount ELSE 0),
                        IF j = y THEN transactions'[1].amount ELSE 0) ]_vars

\* C8: deleting a committed transaction takes its delta back from the
\* balance of its account.
C8_DeleteReversesDelta ==
  [][ lastOp' = "deleteTransaction"
      => /\ Len(accounts') = Len(accounts)
         /\ \A j \in 1..Len(accounts) :
              accounts'[j].balance =
                JsAdd(accounts[j].balance, LedgerChangeFor(accounts[j].id)) ]_vars

\* C9: editing a committed transaction takes the old delta from the old
\* account and applies the new delta to the new account.
C9_EditReappliesDelta ==
  [][ lastOp' = "editTransaction"
      => /\ Len(accounts') = Len(accounts)
         /\ \A j \in 1..Len(accounts) :
              accounts'[j].balance =
                JsAdd(accounts[j].balance, LedgerChangeFor(accounts[j].id)) ]_vars

\* C11: the ids of the ledger transactions are pairwise distinct.
C11_LedgerIdsDistinct ==
  \A a \in 1..Len(transactions) : \A b \in 1..Len(transactions) :
    a # b => transactions[a].id # transactions[b].id

\* C12: every ledger transaction's type is one of EXPENSE, INCOME,
\* INVESTMENT (a candidate of any other type is rejected, not committed).
C12_LedgerTypesKnown ==
  \A k \in 1..Len(transactions) : transactions[k].type \in TransactionType

\* The hint and the account name are related by case-insensitive substring
\* containment, in either direction.
ContainsEitherWay(name, hint) ==
  \/ Includes(ToLowerCase(name), ToLowerCase(hint))
  \/ Includes(ToLowerCase(hint), ToLowerCase(name))

\* The account the stated matching policy picks: the first account related
\* to the hint in either direction, else the first account.
PolicyIdx(accs, p) ==
  LET k == FindIndex([i \in 1..Len(accs) |->
             ContainsEitherWay(accs[i].name, p.accountNameMatch)])
  IN  IF k # 0 THEN k ELSE 1

\* Every candidate of the staged batch carries a hint.
AllHinted == \A k \in 1..Len(previewData.list) :
               previewData.list[k].accountNameMatch # Undefined

\* C17: a commit records every candidate against the first account whose
\* name contains the hint or is contained in it (case-insensitive).
C17_ResolvesEitherDirection ==
  [][ (CommitStep /\ accounts # <<>> /\ AllHinted)
      => \A k \in 1..Len(previewData.list) :
           /\ k <= Len(Added)
           /\ Added[k].accountId =
                accounts[PolicyIdx(accounts, previewData.list[k])].id ]_vars

\* No account name includes the candidate's hint.
NoAccountMatches(p) ==
  \A j \in 1..Len(accounts) :
    ~Includes(ToLowerCase(accounts[j].name), ToLowerCase(p.accountNameMatch))

\* C18: in a commit over a non-empty directory, a candidate whose hint
\* matches no account is recorded against the first account, every
\* candidate of the batch is committed, and the account ids are the same
\* after the commit as before.
C18_NoMatchGoesToFirstAccount ==
  [][ (CommitStep /\ accounts # <<>> /\ AllHinted)
      => /\ Len(transactions') = Len(transactions) + Len(previewData.list)
         /\ \A k \in 1..Len(previewData.list) :
              NoAccountMatches(previewData.list[k])
                => Added[k].accountId = accounts[1].id
         /\ [j \in 1..Len(accounts') |-> accounts'[j].id]
              = [j \in 1..Len(accounts) |-> accounts[j].id] ]_vars

\* C18 witness: the batch (expense 2 with hint "z", income 1 with hint
\* "cw") has been committed over both accounts: the expense went to the
\* first account, the income to Cash Wallet.
C18_Witness ==
  /\ lastOp = "confirm"
  /\ Len(accounts) = 2 /\ Len(transactions) = 2
  /\ transactions[1].type = EXPENSE /\ transactions[1].amount = 2
  /\ transactions[1].accountId = accounts[1].id
  /\ transactions[2].type = INCOME /\ transactions[2].accountId = 2
  /\ Balances(accounts) = << 3, 3 >>

\* An attempt that got this answer has failed: transport error, missing
\* response text or unparsable text.
FailedAnswer(resp) == resp.kind \in {"throw", "noText", "badJson"}

\* An attempt that got this answer has succeeded: JSON array or object.
GoodAnswer(resp) == resp.kind = "json" /\ resp.value.t \in {"array", "object"}

\* C13: a call makes at most two requests; it makes exactly two (one
\* fallback) when the primary attempt fails and exactly one when the
\* primary attempt succeeds.
C13_OneFallbackOnFailure ==
  /\ lastCall.result.requests <= 2
  /\ FailedAnswer(lastCall.primary) => lastCall.result.requests = 2
  /\ GoodAnswer(lastCall.primary) => lastCall.result.requests = 1

\* A step in which a parseNaturalLanguageInput call returns to
\* processSmartEntry.
ExtractionReturns == lastOp' = "extracted" \/ lastOp' = "extractFailed"

\* C14: when the primary attempt fails and no fallback attempt succeeds,
\* the call returns null and processSmartEntry stages no candidate.
C14_DoubleFailureReturnsNull ==
  [][ ( /\ ExtractionReturns
        /\ FailedAnswer(lastCall'.primary)
        /\ ~GoodAnswer(lastCall'.fallback) /\ lastCall'.fallback # JsonScalar )
      => /\ lastCall'.result.ret = "null"
         /\ previewData' = previewData \/ previewData'.list = <<>> ]_vars

\* C15: a JSON value that is neither array nor object is never wrapped
\* and returned as a candidate.
C15_ScalarIsNotACandidate ==
  \A k \in 1..Len(lastCall.result.list) :
    lastCall.result.list[k].kind # "scalar"

\* A candidate or extracted object has a description, an amount and a type.
HasRequiredFields(c) ==
  /\ c.description # UndefinedStr
  /\ ~IsNaN(c.amount)
  /\ c.type # UndefinedStr

\* The number of elements of l that have the three required fields.
NumComplete(l) == Cardinality({k \in 1..Len(l) : HasRequiredFields(l[k])})

\* C16: when an extraction returns objects, every candidate it stages has
\* description, amount and type, and exactly the complete objects are
\* staged.
C16_IncompleteObjectsDropped ==
  [][ ( /\ lastOp' = "extracted"
        /\ \A k \in 1..Len(lastCall'.result.list) :
             lastCall'.result.list[k].kind = "object" )
      => /\ \A k \in 1..Len(previewData'.list) :
              HasRequiredFields(previewData'.list[k])
         /\ Len(previewData'.list) = NumComplete(lastCall'.result.list) ]_vars

\* C19: when an extraction result or a CSV import arrives while candidates
\* are staged, the staged candidates stay at the front of the batch.
C19_StagingAccumulates ==
  [][ ( /\ lastOp' = "extracted" \/ lastOp' = "import"
        /\ ~previewData.isNull /\ previewData.list # <<>> )
      => /\ ~previewData'.isNull
         /\ Len(previewData'.list) >= Len(previewData.list)
         /\ SubSeq(previewData'.list, 1, Len(previewData.list))
              = previewData.list ]_vars

\* The sequence l without its element at position i.
WithoutAt(l, i) == SubSeq(l, 1, i - 1) \o SubSeq(l, i + 1, Len(l))

\* C20: removing a staged candidate leaves ledger and balances alone and
\* takes exactly that candidate out of the batch; editing a field of a
\* staged candidate leaves ledger and balances alone and changes no other
\* candidate, nor the length or the order of the batch.
C20_StagedEditsAreLocal ==
  [][ /\ lastOp' = "removeStaged"
        => /\ UNCHANGED ledgerVars
           /\ \E i \in 1..Len(previewData.list) :
                previewData'.list = WithoutAt(previewData.list, i)
      /\ lastOp' = "editStaged"
        => /\ UNCHANGED ledgerVars
           /\ Len(previewData'.list) = Len(previewData.list)
           /\ \E i \in 1..Len(previewData.list) :
                /\ previewData'.list[i].id = previewData.list[i].id
                /\ \A j \in 1..Len(previewData.list) :
                     j # i => previewData'.list[j] = previewData.list[j] ]_vars

\* C20 witness: the first of two staged candidates has just been removed
\* while the ledger holds a committed transaction.
C20_Witness ==
  /\ lastOp = "removeStaged"
  /\ Len(previewData.list) = 1 /\ previewData.list[1].id = 2
  /\ transactions # <<>>

\* The positions of the data rows of a CSV file that have at least n cells.
RowsWithAtLeast(lines, n) == {i \in 2..Len(lines) : Len(lines[i]) >= n}

\* C21: an import stages one candidate for every data row that has at
\* least five fields (the header row is ignored, only shorter rows are
\* skipped).
C21_FiveFieldRowsStaged ==
  lastOp = "import"
    => Len(previewData.list) = Cardinality(RowsWithAtLeast(lastFile, 5))

\* A step in which handleRestore has read a file.
RestoreStep == lastOp' = "restore" \/ lastOp' = "restoreFailed"

\* C22: a restore whose document fails to parse leaves users, accounts,
\* ledger transactions, categories, price logs, recurring payments,
\* gamification and settings as they were.
C22_UnparsableRestoreChangesNothing ==
  [][ (RestoreStep /\ ~lastDoc'.parses)
      => UNCHANGED << users, accounts, transactions, categories, priceLogs,
                      recurringPayments, gamification, settings >> ]_vars

\* C22 witness: an unreadable file has just been refused while the ledger
\* held a committed transaction.
C22_Witness ==
  /\ lastOp = "restoreFailed"
  /\ ~lastDoc.parses
  /\ transactions # <<>>

\* The state part comes from the document: the key is there and the part
\* has its value.
FromDoc(field, part) == field.has /\ part = field.val

\* C28: after a successful restore every part of the state comes from the
\* restored document.
C28_RestoreAdoptsWholeDocument ==
  [][ lastOp' = "restore"
      => /\ FromDoc(lastDoc'.users, users')
         /\ FromDoc(lastDoc'.accounts, accounts')
         /\ FromDoc(lastDoc'.transactions, transactions')
         /\ FromDoc(lastDoc'.priceLogs, priceLogs')
         /\ FromDoc(lastDoc'.recurringPayments, recurringPayments')
         /\ FromDoc(lastDoc'.categories, categories')
         /\ FromDoc(lastDoc'.gamification, gamification')
         /\ FromDoc(lastDoc'.settings, settings') ]_vars

\* C29: every ledger transaction's accountId is the id of an account of
\* the directory.
C29_TransactionsReferToAccounts ==
  \A k \in 1..Len(transactions) : HasAccount(accounts, transactions[k].accountId)

\* C23: at most one parseNaturalLanguageInput call is in flight, and a
\* call is started only while none is outstanding.
C23_AtMostOneInFlight ==
  [][ /\ inFlight' <= 1
      /\ inFlight' > inFlight => (~isProcessing /\ inFlight = 0) ]_vars

\* C23 witness: a call is outstanding and the button is disabled.
C23_Witness == inFlight = 1 /\ isProcessing

\* C24: an extraction result that arrives while the entry screen is not
\* shown, or while a batch is staged, does not change the staged batch.
C24_LateResponseDiscarded ==
  [][ ( /\ lastOp' = "extracted"
        /\ activeTab # "input" \/ ~previewData.isNull )
      => previewData' = previewData ]_vars

\* C30: isProcessing is true only while a call is outstanding, and every
\* started extraction leads to isProcessing false.
C30_ProcessingEnds ==
  /\ [](isProcessing => inFlight > 0)
  /\ isProcessing ~> ~isProcessing

\* C30 witness: a call has thrown or returned the failure signal and
\* isProcessing is false again.
C30_Witness ==
  /\ lastOp = "extractFailed"
  /\ lastCall.result.ret \in {"null", "throw"}
  /\ ~isProcessing /\ inFlight = 0

\* The optional isDuplicate / duplicateWarning fields of a staged candidate.
DuplicateFlag(p) == "isDuplicate" \in DOMAIN p /\ p.isDuplicate
DuplicateWarning(p) == "duplicateWarning" \in DOMAIN p

\* The ledger txs holds a transaction on the account candidate p resolves
\* to, with the same date, amount and description.
MatchesLedger(accs, txs, p) ==
  /\ ~CandidateThrows(accs, p)
  /\ \E i \in 1..Len(txs) :
       /\ txs[i].accountId = accs[ResolveIdx(accs, p)].id
       /\ txs[i].date = p.date
       /\ txs[i].amount = p.amount
       /\ txs[i].description = p.description

\* C25: a candidate staged by an import or an extraction while the ledger
\* holds a transaction of the same resolved account, date, amount and
\* description carries the duplicate flag and a warning text.
C25_DuplicateFlagged ==
  [][ ( /\ lastOp' \in {"import", "extracted"}
        /\ ~previewData'.isNull )
      => \A k \in 1..Len(previewData'.list) :
           MatchesLedger(accounts', transactions', previewData'.list[k])
             => ( /\ DuplicateFlag(previewData'.list[k])
                  /\ DuplicateWarning(previewData'.list[k]) ) ]_vars

\* C26: when confirmTransactions stops at a candidate, the account balances
\* and the ledger are what they were before the commit.
C26_CommitAtomicOnFailure ==
  [][ lastOp' = "confirmThrow"
      => (accounts' = accounts /\ transactions' = transactions) ]_vars

\* C27: a message sent to the conversational analysis leaves the ledger,
\* its order included, and the accounts as they were.
C27_AnalysisReadOnly ==
  [][ lastOp' = "chat"
      => (transactions' = transactions /\ accounts' = accounts) ]_vars

====
